---- MODULE Spec2Model ----
(***************************************************************************)
(* A model of wavelink.Player (src/wavelink/player.py): the voice          *)
(* handshake (on_voice_state_update, on_voice_server_update,               *)
(* _dispatch_voice_update, connect, disconnect, _destroy) and the playback *)
(* operations (play, pause, seek, set_volume, skip).                       *)
(*                                                                         *)
(* Every coroutine is cut at its awaits: the action named after the        *)
(* method runs the code up to the first await that has code after it, and  *)
(* the suspended call is kept, with the locals it needs, in a bag of       *)
(* requests in flight; a second action resumes it with the node's answer   *)
(* (accepted, or LavalinkException).  Other handlers run in between, as    *)
(* they do on the event loop.  A call suspended in _destroy_player or in    *)
(* change_voice_state(channel=None) is kept in the same way and resumed by *)
(* a step of its own.                                                      *)
(***************************************************************************)
EXTENDS Integers, Sequences, FiniteSets, Bags

VARIABLES
    guild,        \* self._guild: "None" or the guild id
    channel,      \* self.channel: "MISSING" or the channel id
    voice,        \* self._voice_state["voice"]: session_id, token, endpoint
    connected,    \* self._connected
    event,        \* self._connection_event.is_set()
    players,      \* keys of node._players that map to this player
    connectPc,    \* where the connect coroutine is
    current,      \* self._current
    original,     \* self._original
    previous,     \* self._previous
    volume,       \* self._volume
    paused,       \* self._paused
    voiceTasks,   \* _dispatch_voice_update calls suspended in _update_player
    closeTasks,   \* calls suspended in _destroy_player or change_voice_state(None)
    playTasks,    \* play calls suspended in _update_player
    otherTasks,   \* pause, seek, set_volume, skip calls suspended in _update_player
    ret,          \* what the last step returned or raised to its caller
    sent,         \* the requests the last step issued, in order
    acked,        \* history: the node has accepted a voice push
    destroyed,    \* history: _destroy has run
    timedOut,     \* history: a connect has raised ChannelTimeoutException
    joined,       \* history: connect has asked the gateway to join the channel
    closed        \* history: "once" when a disconnect has removed the player from
                  \* the registry, "twice" when a disconnect was called right
                  \* after that one returned, "no" before

connVars == <<guild, channel, voice, connected, event, players, connectPc,
              voiceTasks, closeTasks, acked, destroyed, timedOut, joined, closed>>
playVars == <<current, original, previous, volume, paused, playTasks, otherTasks>>
vars == <<guild, channel, voice, connected, event, players, connectPc,
          current, original, previous, volume, paused,
          voiceTasks, closeTasks, playTasks, otherTasks, ret, sent, acked,
          destroyed, timedOut, joined, closed>>

----------------------------------------------------------------------------
(* Bounds and input sets *)

MaxPush == 2        \* handshake calls (pushes, disconnects) suspended at once
MaxInFlight == 1    \* playback requests in flight at once
MaxOverlap == 2     \* playback calls suspended at once where calls overlap

None == "None"
\* the player itself, as a returned value
Self == "self"
MISSING == "MISSING"
Absent == "absent"              \* a key the voice dict does not hold

GuildId == "g1"
ChannelIds == {"c1"}
Sessions == {"s1"}
Tokens == {"t1", "t2"}
Endpoints == {"e1", ""}         \* "" : an empty (falsy) endpoint
Tracks == {"A", "B"}

DefaultVolume == 100
MinVolume == 0
MaxVolume == 1000

SetVolumeArgs == {-5, -1, 0, 100, 1000, 1001, 5000}
\* play's volume and paused arguments: <<>> is None, <<x>> is the value x
PlayVolumeArgs == {<<>>, <<0>>, <<500>>, <<5000>>}
PlayPausedArgs == {<<>>, <<TRUE>>, <<FALSE>>}
Positions == {0, 30000}

NoRet == [op |-> "-", exc |-> "none", val |-> None]
Returned(o, v) == [op |-> o, exc |-> "none", val |-> v]
Raised(o, e) == [op |-> o, exc |-> e, val |-> None]

----------------------------------------------------------------------------
Init ==
    /\ guild = None
    /\ channel \in {MISSING} \cup ChannelIds
    /\ voice = [session_id |-> Absent, token |-> Absent, endpoint |-> Absent]
    /\ connected = FALSE
    /\ event = FALSE
    /\ players = {}
    /\ connectPc = "idle"
    /\ current = None
    /\ original = None
    /\ previous = None
    /\ volume = DefaultVolume
    /\ paused = FALSE
    /\ voiceTasks = EmptyBag
    /\ closeTasks = EmptyBag
    /\ playTasks = EmptyBag
    /\ otherTasks = EmptyBag
    /\ ret = NoRet
    /\ sent = <<>>
    /\ acked = FALSE
    /\ destroyed = FALSE
    /\ timedOut = FALSE
    /\ joined = FALSE
    /\ closed = "no"

----------------------------------------------------------------------------
(* The voice handshake *)

\* Player.connected: self.channel and self._connected (MISSING is falsy)
ConnectedProp == channel # MISSING /\ connected

\* Player.playing
Playing == connected /\ current # None

\* Player.__call__(client, channel): the instance used as its own factory
Call(c) ==
    /\ channel' = c
    /\ guild' = GuildId
    /\ ret' = Returned("__call__", Self)
    /\ sent' = <<>>
    /\ UNCHANGED <<voice, connected, event, players, connectPc, voiceTasks,
                   closeTasks, acked, destroyed, timedOut, joined>>
    /\ UNCHANGED <<playVars, closed>>

\* DestroyEffect without the pop of node._players
DestroyEffect_NoPop ==
    /\ connected' = FALSE
    /\ event' = FALSE
    /\ players' = players
    /\ destroyed' = TRUE

\* _invalidate, then the pop of node._players in _destroy
DestroyEffect ==
    /\ connected' = FALSE
    /\ event' = FALSE
    /\ players' = players \ {guild}
    /\ destroyed' = TRUE

\* _destroy asks the node to destroy the player only when the pop found one
DestroySent == IF guild \in players THEN <<"destroy">> ELSE <<>>

\* the handshake calls that are suspended
Suspended == BagCardinality(voiceTasks) + BagCardinality(closeTasks)

\* a call suspended in _destroy_player ("destroying") or in
\* change_voice_state(channel=None) ("leaving"); op is the method it returns from
CloseTask(op, pc) == [op |-> op, pc |-> pc]

\* on_voice_state_update: with a null channel up to the await in _destroy,
\* which suspends only when the pop found the player
on_voice_state_update(channel_id, session_id) ==
    /\ IF channel_id = None
       THEN IF guild = None
            THEN /\ ret' = Raised("on_voice_state_update", "AssertionError")
                 /\ sent' = <<>>
                 /\ UNCHANGED <<connected, event, players, destroyed, closeTasks>>
            ELSE /\ DestroyEffect
                 /\ sent' = DestroySent
                 /\ IF guild \in players
                    THEN /\ Suspended < MaxPush
                         /\ closeTasks' = closeTasks (+) SetToBag({
                                CloseTask("on_voice_state_update", "destroying")})
                         /\ ret' = NoRet
                    ELSE /\ ret' = Returned("on_voice_state_update", None)
                         /\ UNCHANGED closeTasks
       ELSE /\ connected' = TRUE
            /\ ret' = Returned("on_voice_state_update", None)
            /\ sent' = <<>>
            /\ UNCHANGED <<event, players, destroyed, closeTasks>>
    /\ voice' = IF channel_id = None THEN voice
                ELSE [voice EXCEPT !.session_id = session_id]
    /\ channel' = IF channel_id = None THEN channel ELSE channel_id
    /\ UNCHANGED <<guild, connectPc, voiceTasks, acked, timedOut, joined>>
    /\ UNCHANGED <<playVars, closed>>

\* DescriptorReady without the check for an empty endpoint
DescriptorReady_NoEmptyCheck(v) ==
    /\ v.session_id # Absent
    /\ v.token # Absent
    /\ v.endpoint # Absent

\* the two early returns of _dispatch_voice_update
DescriptorReady(v) ==
    /\ v.session_id # Absent
    /\ v.token # Absent
    /\ v.endpoint # Absent
    /\ v.endpoint # ""

VoiceRequest(v) ==
    [sessionId |-> v.session_id, token |-> v.token, endpoint |-> v.endpoint]

\* on_voice_server_update up to the await in _dispatch_voice_update
on_voice_server_update(token, endpoint) ==
    /\ voice' = [voice EXCEPT !.token = token, !.endpoint = endpoint]
    /\ IF guild = None
       THEN /\ ret' = Raised("on_voice_server_update", "AssertionError")
            /\ sent' = <<>>
            /\ UNCHANGED voiceTasks
       ELSE IF ~DescriptorReady(voice')
            THEN /\ ret' = Returned("on_voice_server_update", None)
                 /\ sent' = <<>>
                 /\ UNCHANGED voiceTasks
            ELSE /\ Suspended < MaxPush
                 /\ voiceTasks' = voiceTasks (+) SetToBag({VoiceRequest(voice')})
                 /\ sent' = <<"voice">>
                 /\ ret' = NoRet
    /\ UNCHANGED <<guild, channel, connected, event, players, connectPc,
                   closeTasks, acked, destroyed, timedOut, joined>>
    /\ UNCHANGED <<playVars, closed>>

\* _dispatch_voice_update resumed: the node accepted the push
dispatch_accepted(r) ==
    /\ BagIn(r, voiceTasks)
    /\ voiceTasks' = voiceTasks (-) SetToBag({r})
    /\ event' = TRUE
    /\ connectPc' = IF connectPc = "waiting" THEN "woken" ELSE connectPc
    /\ acked' = TRUE
    /\ ret' = Returned("on_voice_server_update", None)
    /\ sent' = <<>>
    /\ UNCHANGED <<guild, channel, voice, connected, players, closeTasks,
                   destroyed, timedOut, joined>>
    /\ UNCHANGED <<playVars, closed>>

\* dispatch_rejected with the signal raised in every case and no disconnect
dispatch_rejected_SetsEvent(r) ==
    /\ BagIn(r, voiceTasks)
    /\ voiceTasks' = voiceTasks (-) SetToBag({r})
    /\ event' = TRUE
    /\ connectPc' = IF connectPc = "waiting" THEN "woken" ELSE connectPc
    /\ sent' = <<>>
    /\ ret' = Returned("on_voice_server_update", None)
    /\ UNCHANGED <<guild, channel, voice, connected, players, closeTasks, acked,
                   destroyed, timedOut, joined>>
    /\ UNCHANGED <<playVars, closed>>

\* disconnect() from _destroy up to its first suspension: in _destroy_player
\* when the pop found the player, else in change_voice_state(channel=None)
Close(op) ==
    /\ DestroyEffect
    /\ sent' = IF guild \in players THEN DestroySent ELSE <<"leave">>
    /\ closeTasks' = closeTasks (+) SetToBag({
           CloseTask(op, IF guild \in players THEN "destroying" ELSE "leaving")})
    /\ ret' = NoRet

\* _dispatch_voice_update resumed: LavalinkException, so disconnect()
dispatch_rejected(r) ==
    /\ BagIn(r, voiceTasks)
    /\ voiceTasks' = voiceTasks (-) SetToBag({r})
    /\ Close("on_voice_server_update")
    /\ UNCHANGED <<guild, channel, voice, connectPc, acked, timedOut, joined>>
    /\ UNCHANGED <<playVars, closed>>

\* disconnect whose pop of node._players has no default: KeyError when absent
disconnect_PopRaises ==
    /\ IF guild = None
       THEN /\ ret' = Raised("disconnect", "AssertionError")
            /\ sent' = <<>>
            /\ UNCHANGED <<connected, event, players, destroyed, closeTasks>>
       ELSE IF guild \notin players
       THEN /\ connected' = FALSE
            /\ event' = FALSE
            /\ destroyed' = TRUE
            /\ sent' = <<>>
            /\ ret' = Raised("disconnect", "KeyError")
            /\ UNCHANGED <<players, closeTasks>>
       ELSE /\ Suspended < MaxPush
            /\ Close("disconnect")
    /\ closed' = IF guild \in players THEN "once"
                  ELSE IF /\ closed = "once"
                          /\ ret = Returned("disconnect", None)
                          /\ closeTasks = EmptyBag
                       THEN "twice" ELSE closed
    /\ UNCHANGED <<guild, channel, voice, connectPc, voiceTasks, acked, timedOut, joined>>
    /\ UNCHANGED playVars

\* Player.disconnect up to its first suspension
disconnect ==
    /\ IF guild = None
       THEN /\ ret' = Raised("disconnect", "AssertionError")
            /\ sent' = <<>>
            /\ UNCHANGED <<connected, event, players, destroyed, closeTasks>>
       ELSE /\ Suspended < MaxPush
            /\ Close("disconnect")
    /\ closed' = IF guild \in players THEN "once"
                  ELSE IF /\ closed = "once"
                          /\ ret = Returned("disconnect", None)
                          /\ closeTasks = EmptyBag
                       THEN "twice" ELSE closed
    /\ UNCHANGED <<guild, channel, voice, connectPc, voiceTasks, acked, timedOut, joined>>
    /\ UNCHANGED playVars

\* _destroy resumed, by the node's answer or by its LavalinkException, which
\* _destroy swallows: the membership handler returns, disconnect goes on to
\* the leave request
destroy_answered(t) ==
    /\ BagIn(t, closeTasks)
    /\ t.pc = "destroying"
    /\ IF t.op = "on_voice_state_update"
       THEN /\ closeTasks' = closeTasks (-) SetToBag({t})
            /\ sent' = <<>>
            /\ ret' = Returned(t.op, None)
       ELSE /\ closeTasks' = (closeTasks (-) SetToBag({t}))
                                (+) SetToBag({CloseTask(t.op, "leaving")})
            /\ sent' = <<"leave">>
            /\ ret' = NoRet
    /\ UNCHANGED <<guild, channel, voice, connected, event, players, connectPc,
                   voiceTasks, acked, destroyed, timedOut, joined>>
    /\ UNCHANGED <<playVars, closed>>

\* change_voice_state(channel=None) returned: disconnect returns, and with it
\* the credentials handler whose push was rejected
leave_answered(t) ==
    /\ BagIn(t, closeTasks)
    /\ t.pc = "leaving"
    /\ closeTasks' = closeTasks (-) SetToBag({t})
    /\ sent' = <<>>
    /\ ret' = Returned(t.op, None)
    /\ UNCHANGED <<guild, channel, voice, connected, event, players, connectPc,
                   voiceTasks, acked, destroyed, timedOut, joined>>
    /\ UNCHANGED <<playVars, closed>>

\* connect marking the player connected as soon as it is called
connect_SetsConnected ==
    /\ connectPc = "idle"
    /\ IF channel = MISSING
       THEN /\ ret' = Raised("connect", "InvalidChannelStateException")
            /\ sent' = <<>>
            /\ UNCHANGED <<guild, players, connectPc, connected, joined>>
       ELSE /\ guild' = GuildId
            /\ players' = IF guild = None THEN players \cup {GuildId} ELSE players
            /\ sent' = <<"join">>
            /\ ret' = NoRet
            /\ connectPc' = "joining"
            /\ joined' = TRUE
            /\ connected' = TRUE
    /\ UNCHANGED <<channel, voice, event, voiceTasks, closeTasks, acked, destroyed, timedOut>>
    /\ UNCHANGED <<playVars, closed>>

\* connect up to the await of guild.change_voice_state
connect ==
    /\ connectPc = "idle"
    /\ IF channel = MISSING
       THEN /\ ret' = Raised("connect", "InvalidChannelStateException")
            /\ sent' = <<>>
            /\ UNCHANGED <<guild, players, connectPc, joined>>
       ELSE /\ guild' = GuildId
            /\ players' = IF guild = None THEN players \cup {GuildId} ELSE players
            /\ sent' = <<"join">>
            /\ ret' = NoRet
            /\ connectPc' = "joining"
            /\ joined' = TRUE
    /\ UNCHANGED <<channel, voice, connected, event, voiceTasks, closeTasks, acked,
                   destroyed, timedOut>>
    /\ UNCHANGED <<playVars, closed>>

\* change_voice_state returned: Event.wait() returns at once when the event is
\* set, and suspends otherwise
connect_wait ==
    /\ connectPc = "joining"
    /\ IF event
       THEN /\ connectPc' = "idle"
            /\ ret' = Returned("connect", None)
       ELSE /\ connectPc' = "waiting"
            /\ ret' = NoRet
    /\ sent' = <<>>
    /\ UNCHANGED <<guild, channel, voice, connected, event, players, voiceTasks, closeTasks,
                   acked, destroyed, timedOut, joined>>
    /\ UNCHANGED <<playVars, closed>>

\* the waiter that Event.set() woke runs again: connect returns
connect_return ==
    /\ connectPc = "woken"
    /\ connectPc' = "idle"
    /\ ret' = Returned("connect", None)
    /\ sent' = <<>>
    /\ UNCHANGED <<guild, channel, voice, connected, event, players, voiceTasks, closeTasks,
                   acked, destroyed, timedOut, joined>>
    /\ UNCHANGED <<playVars, closed>>

\* connect_timeout leaving the event set behind it
connect_timeout_TripsEvent ==
    /\ connectPc \in {"waiting", "woken"}
    /\ connectPc' = "idle"
    /\ ret' = Raised("connect", "ChannelTimeoutException")
    /\ sent' = <<>>
    /\ timedOut' = TRUE
    /\ event' = TRUE
    /\ UNCHANGED <<guild, channel, voice, connected, players, voiceTasks, closeTasks, acked,
                   destroyed, joined>>
    /\ UNCHANGED <<playVars, closed>>

\* the deadline passes, or the wait is cancelled (a cancellation can still
\* reach a waiter that was woken but has not run yet)
connect_timeout ==
    /\ connectPc \in {"waiting", "woken"}
    /\ connectPc' = "idle"
    /\ ret' = Raised("connect", "ChannelTimeoutException")
    /\ sent' = <<>>
    /\ timedOut' = TRUE
    /\ UNCHANGED <<guild, channel, voice, connected, event, players, voiceTasks, closeTasks,
                   acked, destroyed, joined>>
    /\ UNCHANGED <<playVars, closed>>

\* The gateway library hands the player its voice events once the player has
\* asked to join: it creates the player and calls connect without yielding.
NextConn ==
    \/ \E c \in ChannelIds \cup {None}, s \in Sessions :
          joined /\ on_voice_state_update(c, s)
    \/ \E t \in Tokens, e \in Endpoints :
          joined /\ on_voice_server_update(t, e)
    \/ \E c \in ChannelIds : Call(c)
    \/ \E r \in BagToSet(voiceTasks) : dispatch_accepted(r)
    \/ \E r \in BagToSet(voiceTasks) : dispatch_rejected(r)
    \/ disconnect
    \/ \E t \in BagToSet(closeTasks) : destroy_answered(t)
    \/ \E t \in BagToSet(closeTasks) : leave_answered(t)
    \/ connect
    \/ connect_wait
    \/ connect_return
    \/ connect_timeout

SpecConn == Init /\ [][NextConn]_vars

----------------------------------------------------------------------------
(* Playback *)

InFlight == BagCardinality(playTasks) + BagCardinality(otherTasks)

\* volume or self._volume: None and 0 are both falsy
VolumeOr(arg, vol) == IF arg = <<>> \/ arg[1] = 0 THEN vol ELSE arg[1]

\* paused if paused is not None else self._paused
PausedOr(arg, p) == IF arg = <<>> THEN p ELSE arg[1]

\* PlayCurrent that takes the new track whatever replace says
PlayCurrent_Always(track, replace) == track

\* the track play leaves in _current before the request
PlayCurrent(track, replace) ==
    IF replace \/ current = None THEN track ELSE current

\* the value play stores in _previous before the request
PlayPrevious(track, replace) == PlayCurrent(track, replace)

\* play up to the await of node._update_player, entered while fewer than limit
\* calls are suspended.  was_current and was_original are not locals of play:
\* they record the fields as the call found them.
play_call(limit, track, replace, volArg, pausedArg) ==
    /\ IF guild = None
       THEN /\ ret' = Raised("play", "AssertionError")
            /\ sent' = <<>>
            /\ UNCHANGED <<current, original, previous, volume, playTasks>>
       ELSE /\ InFlight < limit
            /\ volume' = VolumeOr(volArg, volume)
            /\ current' = PlayCurrent(track, replace)
            /\ original' = IF replace \/ current = None THEN track ELSE original
            /\ previous' = PlayPrevious(track, replace)
            /\ playTasks' = playTasks (+) SetToBag({
                   [track |-> track, vol |-> VolumeOr(volArg, volume),
                    original_vol |-> volume, old_previous |-> previous,
                    pause |-> PausedOr(pausedArg, paused),
                    was_current |-> current, was_original |-> original]})
            /\ sent' = <<"play">>
            /\ ret' = NoRet
    /\ UNCHANGED <<paused, otherTasks>>
    /\ UNCHANGED connVars

\* Player.play called while no other playback call is suspended
play(track, replace, volArg, pausedArg) ==
    play_call(MaxInFlight, track, replace, volArg, pausedArg)

\* Player.play called while an earlier playback call is still suspended
play_overlapping(track, replace, volArg, pausedArg) ==
    /\ InFlight > 0
    /\ play_call(MaxOverlap, track, replace, volArg, pausedArg)

\* play resumed: the node accepted the request
play_ok(t) ==
    /\ BagIn(t, playTasks)
    /\ playTasks' = playTasks (-) SetToBag({t})
    /\ paused' = t.pause
    /\ ret' = Returned("play", t.track)
    /\ sent' = <<>>
    /\ UNCHANGED <<current, original, previous, volume, otherTasks>>
    /\ UNCHANGED connVars

\* play resumed: LavalinkException
play_fail(t) ==
    /\ BagIn(t, playTasks)
    /\ playTasks' = playTasks (-) SetToBag({t})
    /\ current' = None
    /\ original' = None
    /\ previous' = t.old_previous
    /\ volume' = t.original_vol
    /\ ret' = Raised("play", "LavalinkException")
    /\ sent' = <<>>
    /\ UNCHANGED <<paused, otherTasks>>
    /\ UNCHANGED connVars

\* a pause, seek, set_volume or skip call suspended in node._update_player
Task(op, flag, arg, old) == [op |-> op, flag |-> flag, arg |-> arg, old |-> old]

\* the code shared by pause, seek, set_volume and skip up to their await,
\* entered while fewer than limit calls are suspended
submit_call(limit, name, task) ==
    IF guild = None
    THEN /\ ret' = Raised(name, "AssertionError")
         /\ sent' = <<>>
         /\ UNCHANGED otherTasks
    ELSE /\ InFlight < limit
         /\ otherTasks' = otherTasks (+) SetToBag({task})
         /\ sent' = <<name>>
         /\ ret' = NoRet

\* a call submitted while no other playback call is suspended
Submit(name, task) == submit_call(MaxInFlight, name, task)

\* a suspended call is resumed, by the node's answer or its LavalinkException
Resume(t) ==
    /\ BagIn(t, otherTasks)
    /\ otherTasks' = otherTasks (-) SetToBag({t})
    /\ sent' = <<>>
    /\ UNCHANGED playTasks
    /\ UNCHANGED connVars

\* pause storing the flag before the node has answered
pause_Optimistic(value) ==
    /\ Submit("pause", Task("pause", value, 0, None))
    /\ paused' = IF guild = None THEN paused ELSE value
    /\ UNCHANGED <<current, original, previous, volume, playTasks>>
    /\ UNCHANGED connVars

\* Player.pause up to the await of node._update_player
pause(value) ==
    /\ Submit("pause", Task("pause", value, 0, None))
    /\ UNCHANGED <<current, original, previous, volume, paused, playTasks>>
    /\ UNCHANGED connVars

\* Player.pause called while an earlier playback call is still suspended
pause_overlapping(value) ==
    /\ InFlight > 0
    /\ submit_call(MaxOverlap, "pause", Task("pause", value, 0, None))
    /\ UNCHANGED <<current, original, previous, volume, paused, playTasks>>
    /\ UNCHANGED connVars

pause_ok(t) ==
    /\ t.op = "pause"
    /\ Resume(t)
    /\ paused' = t.flag
    /\ ret' = Returned("pause", None)
    /\ UNCHANGED <<current, original, previous, volume>>

pause_fail(t) ==
    /\ t.op = "pause"
    /\ Resume(t)
    /\ ret' = Raised("pause", "LavalinkException")
    /\ UNCHANGED <<current, original, previous, volume, paused>>

\* seek without the early return on an absent current track
seek_NoCurrentCheck(position) ==
    /\ Submit("seek", Task("seek", FALSE, 0, None))
    /\ UNCHANGED <<current, original, previous, volume, paused, playTasks>>
    /\ UNCHANGED connVars

\* Player.seek up to the await of node._update_player
seek(position) ==
    /\ IF guild # None /\ current = None
       THEN /\ ret' = Returned("seek", None)
            /\ sent' = <<>>
            /\ UNCHANGED otherTasks
       ELSE Submit("seek", Task("seek", FALSE, 0, None))
    /\ UNCHANGED <<current, original, previous, volume, paused, playTasks>>
    /\ UNCHANGED connVars

seek_ok(t) ==
    /\ t.op = "seek"
    /\ Resume(t)
    /\ ret' = Returned("seek", None)
    /\ UNCHANGED <<current, original, previous, volume, paused>>

seek_fail(t) ==
    /\ t.op = "seek"
    /\ Resume(t)
    /\ ret' = Raised("seek", "LavalinkException")
    /\ UNCHANGED <<current, original, previous, volume, paused>>

\* the clamp without its lower end: min(value, 1000)
Clamp_NoLower(value) == IF value < MaxVolume THEN value ELSE MaxVolume

\* max(min(value, 1000), 0)
Clamp(value) ==
    LET lo == IF value < MaxVolume THEN value ELSE MaxVolume
    IN  IF lo > MinVolume THEN lo ELSE MinVolume

set_volume(value) ==
    /\ Submit("set_volume", Task("set_volume", FALSE, Clamp(value), None))
    /\ UNCHANGED <<current, original, previous, volume, paused, playTasks>>
    /\ UNCHANGED connVars

\* Player.set_volume called while an earlier playback call is still suspended
set_volume_overlapping(value) ==
    /\ InFlight > 0
    /\ submit_call(MaxOverlap, "set_volume",
                   Task("set_volume", FALSE, Clamp(value), None))
    /\ UNCHANGED <<current, original, previous, volume, paused, playTasks>>
    /\ UNCHANGED connVars

set_volume_ok(t) ==
    /\ t.op = "set_volume"
    /\ Resume(t)
    /\ volume' = t.arg
    /\ ret' = Returned("set_volume", None)
    /\ UNCHANGED <<current, original, previous, paused>>

set_volume_fail(t) ==
    /\ t.op = "set_volume"
    /\ Resume(t)
    /\ ret' = Raised("set_volume", "LavalinkException")
    /\ UNCHANGED <<current, original, previous, volume, paused>>

\* skip clearing the current track locally before the node has answered
skip_ClearsCurrent ==
    /\ Submit("skip", Task("skip", FALSE, 0, current))
    /\ current' = IF guild = None THEN current ELSE None
    /\ original' = IF guild = None THEN original ELSE None
    /\ UNCHANGED <<previous, volume, paused, playTasks>>
    /\ UNCHANGED connVars

\* Player.skip up to the await of node._update_player
skip ==
    /\ Submit("skip", Task("skip", FALSE, 0, current))
    /\ UNCHANGED <<current, original, previous, volume, paused, playTasks>>
    /\ UNCHANGED connVars

skip_ok(t) ==
    /\ t.op = "skip"
    /\ Resume(t)
    /\ ret' = Returned("skip", t.old)
    /\ UNCHANGED <<current, original, previous, volume, paused>>

skip_fail(t) ==
    /\ t.op = "skip"
    /\ Resume(t)
    /\ ret' = Raised("skip", "LavalinkException")
    /\ UNCHANGED <<current, original, previous, volume, paused>>

\* stop is an alias of skip
stop == skip

NextPlay ==
    \/ \E t \in Tracks, r \in BOOLEAN, v \in PlayVolumeArgs, p \in PlayPausedArgs :
          play(t, r, v, p)
    \/ \E t \in BagToSet(playTasks) : play_ok(t)
    \/ \E t \in BagToSet(playTasks) : play_fail(t)
    \/ \E b \in BOOLEAN : pause(b)
    \/ \E t \in BagToSet(otherTasks) : pause_ok(t)
    \/ \E t \in BagToSet(otherTasks) : pause_fail(t)
    \/ \E p \in Positions : seek(p)
    \/ \E t \in BagToSet(otherTasks) : seek_ok(t)
    \/ \E t \in BagToSet(otherTasks) : seek_fail(t)
    \/ \E v \in SetVolumeArgs : set_volume(v)
    \/ \E t \in BagToSet(otherTasks) : set_volume_ok(t)
    \/ \E t \in BagToSet(otherTasks) : set_volume_fail(t)
    \/ skip
    \/ stop
    \/ \E t \in BagToSet(otherTasks) : skip_ok(t)
    \/ \E t \in BagToSet(otherTasks) : skip_fail(t)

Next == NextConn \/ NextPlay

Spec == Init /\ [][Next]_vars

\* the handshake alone, and playback alone on a player __call__ or connect bound
\* to a guild: the two halves share no field that either writes
SpecPlay == Init /\ [][(\E c \in ChannelIds : Call(c)) \/ NextPlay]_vars

\* playback where a call may be issued while an earlier one is suspended:
\* the player takes no lock and keeps no queue of calls
NextOverlap ==
    \/ \E c \in ChannelIds : Call(c)
    \/ NextPlay
    \/ \E t \in Tracks, r \in BOOLEAN, v \in PlayVolumeArgs, p \in PlayPausedArgs :
          play_overlapping(t, r, v, p)
    \/ \E b \in BOOLEAN : pause_overlapping(b)
    \/ \E v \in SetVolumeArgs : set_volume_overlapping(v)

SpecOverlap == Init /\ [][NextOverlap]_vars

\* play and skip on a player that joins a channel and receives membership events
NextSkip ==
    \/ connect
    \/ \E c \in ChannelIds \cup {None}, s \in Sessions :
          joined /\ on_voice_state_update(c, s)
    \/ \E t \in Tracks, r \in BOOLEAN, v \in PlayVolumeArgs, p \in PlayPausedArgs :
          play(t, r, v, p)
    \/ \E t \in BagToSet(playTasks) : play_ok(t)
    \/ \E t \in BagToSet(playTasks) : play_fail(t)
    \/ skip
    \/ stop
    \/ \E t \in BagToSet(otherTasks) : skip_ok(t)
    \/ \E t \in BagToSet(otherTasks) : skip_fail(t)
    \/ \E t \in BagToSet(closeTasks) : destroy_answered(t)

SpecSkip == Init /\ [][NextSkip]_vars

----------------------------------------------------------------------------
(* Claims *)

\* the descriptor holds a session id, a token and a non-empty endpoint
Complete(v) ==
    /\ v.session_id \in Sessions
    /\ v.token \in Tokens
    /\ v.endpoint \in Endpoints \ {""}

\* the step issued a voice push
NewPush == BagCardinality(voiceTasks') = BagCardinality(voiceTasks) + 1

\* C1: a voice push is issued only when session_id, token and a non-empty
\* endpoint are all stored, and the request carries the three stored values.
T_C1 ==
    [][\A r \in BagToSet(voiceTasks') :
          CopiesIn(r, voiceTasks') > CopiesIn(r, voiceTasks)
          => /\ Complete(voice')
             /\ r.sessionId = voice'.session_id
             /\ r.token = voice'.token
             /\ r.endpoint = voice'.endpoint]_vars

W_C1 == sent = <<"voice">> /\ BagIn(VoiceRequest(voice), voiceTasks)

\* C2: on a player bound to a guild, a push is issued exactly by the steps
\* that take the descriptor from incomplete to complete: a membership event
\* that completes it issues one, an event on a complete descriptor none.
CX_C2 ==
    [][guild # None => (NewPush <=> (~Complete(voice) /\ Complete(voice')))]_vars

\* C3: a connect does not time out once a membership event and a credentials
\* event have been delivered, in either order, and nothing was rejected: a
\* registered, never invalidated player with a complete descriptor and no
\* push left in flight has had its signal raised when connect times out.
CX_C3 ==
    (/\ ret = Raised("connect", "ChannelTimeoutException")
     /\ guild \in players
     /\ connected
     /\ Complete(voice)
     /\ voiceTasks = EmptyBag)
    => event

\* C4: a play that fails with LavalinkException leaves current, original,
\* previous and volume as the call found them.
CX_C4 ==
    [][\A t \in BagToSet(playTasks) :
          (/\ ret' = Raised("play", "LavalinkException")
           /\ CopiesIn(t, playTasks') < CopiesIn(t, playTasks))
          => /\ current' = t.was_current
             /\ original' = t.was_original
             /\ previous' = t.old_previous
             /\ volume' = t.original_vol]_vars

\* C5: after a successful play, previous is the track that was current
\* immediately before the call.
CX_C5 ==
    [][\A t \in BagToSet(playTasks) :
          (/\ ret' = Returned("play", t.track)
           /\ CopiesIn(t, playTasks') < CopiesIn(t, playTasks))
          => previous' = t.was_current]_vars

\* C6: the volume is in [0, 1000] in every reachable state; it is checked
\* where no request is in flight, so after every call has returned or raised.
CX_C6 == InFlight = 0 => volume \in MinVolume..MaxVolume

\* C7 as stated: the player reports connected only once a push has been
\* acknowledged.
CX_C7 == ConnectedProp => (acked /\ Complete(voice))

\* C7 as amended: the player reports connected only once a membership event
\* with a channel has been delivered (which stores the session id and the
\* channel), whether or not a push has been acknowledged.
T_C7 == connected => (voice.session_id \in Sessions /\ channel \in ChannelIds)

W_C7 == ConnectedProp /\ ~acked

\* C8: a connect call in progress on a player that was never destroyed finds
\* the player registered under its guild id.
CX_C8 == (connectPc # "idle" /\ ~destroyed) => guild \in players

\* C9: after connect has raised ChannelTimeoutException the player is
\* registered and not connected.
CX_C9 ==
    ret = Raised("connect", "ChannelTimeoutException")
    => (guild \in players /\ ~ConnectedProp)

\* C10: a connect that times out leaves the signal as it was; a connect made
\* after a timeout suspends when the signal is not raised, is woken by the
\* acknowledgement of a push, and returns successfully only on a raised
\* signal.
T_C10 ==
    [][/\ ret' = Raised("connect", "ChannelTimeoutException")
          => (event' = event /\ connectPc' = "idle")
       /\ (timedOut /\ connectPc = "joining" /\ connectPc' # "joining")
          => IF event THEN ret' = Returned("connect", None)
                      ELSE connectPc' = "waiting"
       /\ (timedOut /\ connectPc = "waiting" /\ event')
          => (connectPc' = "woken" /\ acked')
       /\ (timedOut /\ connectPc = "waiting" /\ ~event')
          => ret' # Returned("connect", None)
       /\ (timedOut /\ ret' = Returned("connect", None))
          => (acked /\ (event \/ connectPc = "woken"))]_vars

W_C10 == timedOut /\ ret = Returned("connect", None) /\ event

\* the step resumed a push with the node's LavalinkException
RejectedStep == \E r \in BagToSet(voiceTasks) : dispatch_rejected(r)

\* the step resumed a push that the node accepted
AcceptedStep == \E r \in BagToSet(voiceTasks) : dispatch_accepted(r)

\* the handshake call t has left the point where it was suspended
Resumed(t) == CopiesIn(t, closeTasks') < CopiesIn(t, closeTasks)

\* C11: a push the node rejects does not raise the signal; the player is
\* disconnected instead: the step clears the connected flag and the signal
\* and removes the player from the registry, the handler goes on to the
\* leave request (after the destroy request when the player was registered)
\* and returns without raising; only an accepted push raises the signal.
T_C11 ==
    [][/\ RejectedStep
          => /\ ~event'
             /\ ~connected'
             /\ guild \notin players'
             /\ ret'.exc = "none"
             /\ \E pc \in {"destroying", "leaving"} :
                   /\ pc = "leaving" <=> sent' = <<"leave">>
                   /\ closeTasks' = closeTasks
                         (+) SetToBag({CloseTask("on_voice_server_update", pc)})
       /\ \A t \in BagToSet(closeTasks) :
             (t.op = "on_voice_server_update" /\ Resumed(t))
             => IF t.pc = "destroying"
                THEN /\ sent' = <<"leave">>
                     /\ BagIn(CloseTask(t.op, "leaving"), closeTasks')
                     /\ ret'.exc = "none"
                ELSE ret' = Returned("on_voice_server_update", None)
       /\ (~event /\ event') => AcceptedStep]_vars

W_C11 ==
    /\ BagIn(CloseTask("on_voice_server_update", "leaving"), closeTasks)
    /\ sent = <<"leave">>
    /\ ~event /\ ~connected /\ guild \notin players
    /\ joined

\* the step delivered a membership event with a null channel
MembershipLostStep ==
    \E s \in Sessions : joined /\ on_voice_state_update(None, s)

\* C12: a membership event with a null channel that arrives while connect is
\* waiting on a registered player clears the connected flag and the signal
\* and removes the player from the registry.
T_C12 ==
    [][(MembershipLostStep /\ connectPc = "waiting" /\ guild \in players)
       => (~connected' /\ ~event' /\ guild \notin players')]_vars

W_C12 ==
    /\ BagIn(CloseTask("on_voice_state_update", "destroying"), closeTasks)
    /\ sent = <<"destroy">>
    /\ connectPc = "waiting"
    /\ ~connected /\ ~event /\ players = {}

\* C13: a disconnect called after a disconnect has returned leaves the
\* registry as it was, sends the leave request and no destroy request, and
\* returns without error.
T_C13 ==
    [][/\ (ret = Returned("disconnect", None) /\ disconnect)
          => /\ ret'.exc = "none"
             /\ players' = players
             /\ sent' = <<"leave">>
             /\ closeTasks' = closeTasks
                   (+) SetToBag({CloseTask("disconnect", "leaving")})
       /\ \A t \in BagToSet(closeTasks) :
             (t = CloseTask("disconnect", "leaving") /\ Resumed(t))
             => (ret' = Returned("disconnect", None) /\ players' = players)]_vars

W_C13 ==
    /\ closed = "twice"
    /\ ret = Returned("disconnect", None)
    /\ closeTasks = EmptyBag
    /\ acked /\ players = {}

\* C20: the signal is never raised while the connected flag is false and the
\* player is absent from the registry.
CX_C20 == event => (connected \/ guild \in players)

\* C14: playback calls are serialized, so that a failing play rolls back only
\* its own writes: when a suspended play resumes with the node's error, the
\* volume is still the one that play stored before its request, no other call
\* having written the playback fields while it was suspended.
CX_C14 ==
    [][\A t \in BagToSet(playTasks) :
          (/\ CopiesIn(t, playTasks') < CopiesIn(t, playTasks)
           /\ ret' = Raised("play", "LavalinkException"))
          => volume = t.vol]_vars

\* the playback fields of the player
fields == <<current, original, previous, volume, paused>>

\* C15: seek on a player with no current track sends no request, changes no
\* field and returns without error, for every position.
T_C15 ==
    [][\A p \in Positions :
          (seek(p) /\ guild # None /\ current = None)
          => /\ sent' = <<>>
             /\ ret' = Returned("seek", None)
             /\ otherTasks' = otherTasks /\ playTasks' = playTasks
             /\ fields' = fields]_vars

W_C15 ==
    /\ ret = Returned("seek", None)
    /\ sent = <<>>
    /\ current = None /\ guild # None
    /\ InFlight = 0

\* C16: pause(value) leaves the paused flag alone until the node has answered;
\* on success the flag is value and nothing else changes; on a node error no
\* playback field changes and the error is raised to the caller.
T_C16 ==
    [][/\ (\E b \in BOOLEAN : pause(b)) => fields' = fields
       /\ \A t \in BagToSet(otherTasks) :
             /\ pause_ok(t)
                => /\ paused' = t.flag
                   /\ <<current, original, previous, volume>>'
                         = <<current, original, previous, volume>>
                   /\ ret' = Returned("pause", None)
             /\ pause_fail(t)
                => /\ fields' = fields
                   /\ ret' = Raised("pause", "LavalinkException")]_vars

W_C16 ==
    /\ ret = Raised("pause", "LavalinkException")
    /\ ~paused
    /\ current # None

\* min(max(value, 0), 1000), written out
Clamped(value) ==
    IF value < MinVolume THEN MinVolume
    ELSE IF value > MaxVolume THEN MaxVolume ELSE value

\* C17: set_volume(value) submits min(max(value, 0), 1000) and stores it when
\* the node accepts, whatever the volume was before (so that a repeated
\* set_volume leaves the state of the first); on a node error the volume is
\* unchanged.
T_C17 ==
    [][/\ \A v \in SetVolumeArgs :
             (set_volume(v) /\ guild # None)
             => /\ otherTasks'
                     = otherTasks (+) SetToBag({Task("set_volume", FALSE, Clamped(v), None)})
                /\ fields' = fields
       /\ \A t \in BagToSet(otherTasks) :
             /\ set_volume_ok(t)
                => /\ volume' = t.arg
                   /\ volume' \in MinVolume..MaxVolume
                   /\ <<current, original, previous, paused>>'
                         = <<current, original, previous, paused>>
                   /\ (volume = t.arg => fields' = fields)
             /\ set_volume_fail(t)
                => /\ fields' = fields
                   /\ ret' = Raised("set_volume", "LavalinkException")]_vars

W_C17 ==
    /\ ret = Returned("set_volume", None)
    /\ volume = MinVolume

\* the play call that the step suspended
Started ==
    CHOOSE k \in BagToSet(playTasks') :
        CopiesIn(k, playTasks') > CopiesIn(k, playTasks)

\* C18: play with replace false on a player that has a current track leaves
\* current and original as they are; with replace true or no current track
\* both become the new track; a play the node accepts changes neither when it
\* returns.
T_C18 ==
    [][/\ (sent' = <<"play">> /\ guild # None)
          => LET k == Started
             IN  \A r \in BOOLEAN :
                    (\E v \in PlayVolumeArgs, p \in PlayPausedArgs :
                        /\ k.vol = VolumeOr(v, volume)
                        /\ k.pause = PausedOr(p, paused)
                        /\ play(k.track, r, v, p))
                    => IF r \/ current = None
                       THEN current' = k.track /\ original' = k.track
                       ELSE current' = current /\ original' = original
       /\ \A t \in BagToSet(playTasks) :
             play_ok(t) => (current' = current /\ original' = original)]_vars

W_C18 ==
    /\ ret = Returned("play", "B")
    /\ current = "A" /\ original = "A"

\* C19: skip (and stop) sends the clear-track request and, when the node
\* accepts, returns the track that was current when it was called; neither
\* step changes current, original, previous, paused or volume, so current and
\* playing are what they were before.
T_C19 ==
    [][/\ ((skip \/ stop) /\ guild # None)
          => /\ otherTasks' = otherTasks (+) SetToBag({Task("skip", FALSE, 0, current)})
             /\ sent' = <<"skip">>
             /\ fields' = fields
             /\ Playing' = Playing
       /\ \A t \in BagToSet(otherTasks) :
             skip_ok(t)
             => /\ ret' = Returned("skip", t.old)
                /\ fields' = fields
                /\ Playing' = Playing]_vars

W_C19 ==
    /\ ret = Returned("skip", "A")
    /\ current = "A"
    /\ Playing

====
